---- MODULE Spec2Model ----
(***************************************************************************)
(* Model of standalone-code.py: population exposed to cyclone wind bands   *)
(* per administrative unit.                                                *)
(*                                                                         *)
(* Geometry.  The world is one raster row.  Every pixel is two unit        *)
(* segments wide, so that a pixel centroid is a vertex between two         *)
(* segments and a polygon boundary can pass through it.  Segment k is the  *)
(* closed interval [k, k+1]; a polygon is a set of segments (the union of  *)
(* their closed intervals); its area is the number of its segments.  A     *)
(* point is an integer coordinate.                                         *)
(*                                                                         *)
(* Numbers.  Columns of floats are exact rationals [n, d] in lowest terms, *)
(* or NaN, or Inf; division follows IEEE (x/0 = inf, 0/0 = nan) and        *)
(* round(2) rounds half to even on the exact value.                        *)
(***************************************************************************)
EXTENDS Integers, Sequences, FiniteSets, TLC

\* ------------------------------------------------------------------ bounds
NPix == 2
MaxUnits == 2

\* the population values a pixel can carry
PixelValues == {0, 1}

NSeg == 2 * NPix
Segments == 0 .. (NSeg - 1)

\* ------------------------------------------------------------------ floats
RECURSIVE GCD(_, _)
GCD(a, b) == IF b = 0 THEN a ELSE GCD(b, a % b)

NaN == [k |-> "nan", n |-> 0, d |-> 1]
Inf == [k |-> "inf", n |-> 0, d |-> 1]
Rat(n, d) == LET g == GCD(n, d) IN [k |-> "num", n |-> n \div g, d |-> d \div g]
Num(n) == Rat(n, 1)
IsNum(x) == x.k = "num"

\* float multiplication (operands are non-negative)
FMul(x, y) ==
    IF x.k = "nan" \/ y.k = "nan" THEN NaN
    ELSE IF x.k = "inf" \/ y.k = "inf"
         THEN (IF (IsNum(x) /\ x.n = 0) \/ (IsNum(y) /\ y.n = 0) THEN NaN ELSE Inf)
         ELSE Rat(x.n * y.n, x.d * y.d)

\* a plausible slip: a zero divisor yields 0 instead of nan/inf
FDivZeroGuard(x, y) ==
    IF x.k = "nan" \/ y.k = "nan" THEN NaN
    ELSE IF y.k = "inf" THEN (IF x.k = "inf" THEN NaN ELSE Num(0))
    ELSE IF x.k = "inf" THEN Inf
    ELSE IF y.n = 0 THEN Num(0)
    ELSE Rat(x.n * y.d, x.d * y.n)

\* float division of pandas/numpy: no exception, x/0 = inf, 0/0 = nan
FDiv(x, y) ==
    IF x.k = "nan" \/ y.k = "nan" THEN NaN
    ELSE IF y.k = "inf" THEN (IF x.k = "inf" THEN NaN ELSE Num(0))
    ELSE IF x.k = "inf" THEN Inf
    ELSE IF y.n = 0 THEN (IF x.n = 0 THEN NaN ELSE Inf)
    ELSE Rat(x.n * y.d, x.d * y.n)

\* Series.round(2): nearest multiple of 0.01, ties to even; nan and inf pass
Round2(x) ==
    IF ~IsNum(x) THEN x
    ELSE LET q == (100 * x.n) \div x.d
             r == (100 * x.n) % x.d
             up == (2 * r > x.d) \/ (2 * r = x.d /\ q % 2 = 1)
         IN  Rat(IF up THEN q + 1 ELSE q, 100)

\* x <= y on numbers
FLeq(x, y) == x.n * y.d <= y.n * x.d
FAdd(x, y) == Rat(x.n * y.d + y.n * x.d, x.d * y.d)

\* ---------------------------------------------------------------- geometry
Area(g) == Cardinality(g)
MinOf(S) == CHOOSE x \in S : \A y \in S : x <= y
MaxOf(S) == CHOOSE x \in S : \A y \in S : x >= y

\* shapely centroid of a run of segments (a point)
Centroid(g) == (MinOf(g) + MaxOf(g) + 1) \div 2

\* predicate "intersects" of a polygon and a point: the closed polygon holds it
Intersects(g, p) == (p - 1) \in g \/ p \in g

\* predicate "contains" of a polygon and a point: the point is in the interior
Contains(g, p) == (p - 1) \in g /\ p \in g

\* polygon-polygon "intersects": they share at least a point
PolyIntersects(g, h) == \E s \in g : \E t \in h : s - t \in {-1, 0, 1}

\* shapely's g - h
Difference(g, h) == g \ h

Interval(lo, hi) == lo .. hi
Intervals == {Interval(lo, hi) : lo \in Segments, hi \in Segments} \ {{}}

\* ---------------------------------------------------------------- sequences
RECURSIVE SeqOfSet(_)
SeqOfSet(S) == IF S = {} THEN <<>> ELSE <<MinOf(S)>> \o SeqOfSet(S \ {MinOf(S)})

RECURSIVE SumOver(_, _)
SumOver(S, f) ==
    IF S = {} THEN 0
    ELSE LET x == CHOOSE y \in S : TRUE IN f[x] + SumOver(S \ {x}, f)

VARIABLES pc, raised, img, pop_gis, adm, pop_by_adm, cyclone_data, cyclone_gis,
          pop_by_cyclone, final_data

vars == <<pc, raised, img, pop_gis, adm, pop_by_adm, cyclone_data, cyclone_gis,
          pop_by_cyclone, final_data>>


\* ------------------------------------------------------------------ inputs
\* img.read(1, masked=True): per pixel a value, or the no-data mask
Pixel(v) == [masked |-> FALSE, value |-> v]
NoData == [masked |-> TRUE, value |-> 0]
Rasters == [1 .. NPix -> {Pixel(v) : v \in PixelValues} \cup {NoData}]

\* the boundary file: consecutive units that tile the extent
AdmOfCuts(cuts) ==
    LET b == SeqOfSet(cuts \cup {0, NSeg})
    IN  [u \in 1 .. (Len(b) - 1) |->
            [ADM2_PCODE |-> u, geometry |-> Interval(b[u], b[u + 1] - 1)]]
AdmInputs ==
    {AdmOfCuts(cuts) : cuts \in {c \in SUBSET (1 .. (NSeg - 1)) : Cardinality(c) < MaxUnits}}

KmhLabels == {"60 km/h", "90 km/h", "120 km/h"}
ConesLabel == "Uncertainty Cones"
LabelOf(w) == CASE w = 60 -> "60 km/h" [] w = 90 -> "90 km/h" [] w = 120 -> "120 km/h"

\* The GDACS response: the cone feature and the wind buffers, strongest
\* first.  The 60 km/h buffer encloses the other two; the 120 km/h buffer is
\* no larger than the 90 km/h one and wholly or partially inside it.  At most
\* one buffer is absent.
CycloneOf(e, g90, g120, absent) ==
    LET all == << [polygonlabel |-> ConesLabel, geometry |-> Segments],
                  [polygonlabel |-> LabelOf(120), geometry |-> g120],
                  [polygonlabel |-> LabelOf(90), geometry |-> g90],
                  [polygonlabel |-> LabelOf(60), geometry |-> e] >>
    IN  SelectSeq(all, LAMBDA f : absent = 0 \/ f.polygonlabel # LabelOf(absent))
CycloneInputs ==
    {CycloneOf(g[1], g[2], g[3], absent) :
        g \in {h \in Intervals \X Intervals \X Intervals :
                  /\ h[2] \subseteq h[1] /\ h[3] \subseteq h[1]
                  /\ h[2] \cap h[3] # {} /\ Area(h[3]) <= Area(h[2])},
        absent \in {0, 60, 90, 120}}

\* ----------------------------------------------------- raster to points
PixelSegments(i) == {2 * i - 2, 2 * i - 1}
RunEnd(im, i) == MaxOf({j \in i .. NPix : \A k \in i .. j : im[k] = im[i]})
RunStarts(im) == {i \in 1 .. NPix : ~im[i].masked /\ (i = 1 \/ im[i - 1] # im[i])}

\* rasterio.features.shapes on the masked band: one (shape, value) per
\* connected region of equal value outside the mask, in scan order
Shapes(im) ==
    LET starts == SeqOfSet(RunStarts(im))
    IN  [k \in 1 .. Len(starts) |->
            [geometry |-> UNION {PixelSegments(j) : j \in starts[k] .. RunEnd(im, starts[k])},
             value |-> im[starts[k]].value]]

PopGis(shapes) ==
    [k \in 1 .. Len(shapes) |->
        [Total_population_by_adm2 |-> shapes[k].value,
         geometry |-> Centroid(shapes[k].geometry)]]

Weight(points) == [k \in DOMAIN points |-> points[k].Total_population_by_adm2]

\* ------------------------------------------------------- aggregation
\* adm.sjoin(pop_gis, how='inner', predicate='intersects'): the matching pairs
AdmSjoinPop(a, points) ==
    {m \in (DOMAIN a) \X (DOMAIN points) :
        Intersects(a[m[1]].geometry, points[m[2]].geometry)}

\* groupby('index_left'): 'first' of every column, 'sum' of the population
PopByAdm(a, points) ==
    LET joined == AdmSjoinPop(a, points)
    IN  [i \in {m[1] : m \in joined} |->
            [ADM2_PCODE |-> a[i].ADM2_PCODE,
             geometry |-> a[i].geometry,
             Total_population_by_adm2 |->
                SumOver({k \in DOMAIN points : <<i, k>> \in joined}, Weight(points))]]

\* ------------------------------------------------------- cyclone bands
ContainsKmh(label) == label \in KmhLabels
WindSpeed(label) ==
    CASE label = "60 km/h" -> 60 [] label = "90 km/h" -> 90 [] label = "120 km/h" -> 120

RECURSIVE SortByWindSpeed(_)
SortByWindSpeed(rows) ==
    IF rows = <<>> THEN <<>>
    ELSE LET lo == MinOf({rows[k].wind_speed : k \in DOMAIN rows})
         IN  SelectSeq(rows, LAMBDA r : r.wind_speed = lo)
             \o SortByWindSpeed(SelectSeq(rows, LAMBDA r : r.wind_speed # lo))

\* lines 67-75: keep the 'km/h' features, parse the speed, sort ascending
CycloneGis(data) ==
    LET kept == SelectSeq(data, LAMBDA f : ContainsKmh(f.polygonlabel))
    IN  SortByWindSpeed([k \in DOMAIN kept |->
            [wind_speed |-> WindSpeed(kept[k].polygonlabel),
             geometry |-> kept[k].geometry]])

RowsAt(cg, w) == {k \in DOMAIN cg : cg[k].wind_speed = w}
\* Series.item(): defined only for exactly one element
HasItem(cg, w) == Cardinality(RowsAt(cg, w)) = 1
Item(cg, w) == cg[CHOOSE k \in RowsAt(cg, w) : TRUE].geometry

\* lines 82-83: the 90 and the 60 rows get their difference, the rest is kept
BandDifference(cg) ==
    LET poly60 == Item(cg, 60)
        poly90 == Item(cg, 90)
        poly120 == Item(cg, 120)
    IN  [k \in DOMAIN cg |->
            [wind_speed |-> cg[k].wind_speed,
             geometry |-> CASE cg[k].wind_speed = 90 -> Difference(poly90, poly120)
                            [] cg[k].wind_speed = 60 -> Difference(poly60, poly90)
                            [] OTHER -> cg[k].geometry]]

\* lines 87-90: sjoin 'contains', groupby wind_speed, sum, round(2)
PopByCyclone(cg, points) ==
    LET joined == {m \in (DOMAIN cg) \X (DOMAIN points) :
                      Contains(cg[m[1]].geometry, points[m[2]].geometry)}
    IN  [w \in {cg[m[1]].wind_speed : m \in joined} |->
            Round2(Num(SumOver({m \in joined : cg[m[1]].wind_speed = w},
                               [m \in joined |-> points[m[2]].Total_population_by_adm2])))]

\* ------------------------------------------------------- apportionment
Speeds(cg) == {cg[k].wind_speed : k \in DOMAIN cg}
BandOf(cg, w) == cg[CHOOSE k \in DOMAIN cg : cg[k].wind_speed = w].geometry

\* line 99: pop_by_adm.sjoin(cyclone_gis, how='inner', predicate='intersects'),
\* then keyed by (index_left, wind_speed) at line 108
FinalPairs(pba, cg) ==
    {key \in (DOMAIN pba) \X Speeds(cg) :
        \E k \in DOMAIN cg :
            cg[k].wind_speed = key[2] /\ PolyIntersects(pba[key[1]].geometry, cg[k].geometry)}

\* area of one row of the intersection overlay, in the metric CRS
OverlayArea(g, h) == Area(g \cap h)

\* lines 104-106: gpd.overlay(how='intersection') keeps the polygonal
\* intersections only; overlapping_area keyed by (index_left, wind_speed)
OverlayData(pba, cg) ==
    [key \in {q \in (DOMAIN pba) \X Speeds(cg) :
                 pba[q[1]].geometry \cap BandOf(cg, q[2]) # {}} |->
        [overlapping_area |-> OverlayArea(pba[key[1]].geometry, BandOf(cg, key[2]))]]

\* a plausible slip: the unit area is taken by row position (the first row)
AreaRatioPositional(ov, pba, key) ==
    IF key \in DOMAIN ov
    THEN FDiv(Num(ov[key].overlapping_area),
              Num(Area(pba[MinOf(DOMAIN pba)].geometry)))
    ELSE NaN

\* line 109: the two Series are aligned on (index_left, wind_speed); a key of
\* final_data without an overlay row gets nan
AreaRatio(ov, pba, key) ==
    IF key \in DOMAIN ov
    THEN FDiv(Num(ov[key].overlapping_area), Num(Area(pba[key[1]].geometry)))
    ELSE NaN

\* lines 99-111
FinalData(pba, cg) ==
    LET ov == OverlayData(pba, cg)
    IN  [key \in FinalPairs(pba, cg) |->
            [Total_population_by_adm2 |-> pba[key[1]].Total_population_by_adm2,
             fraction |-> FMul(AreaRatio(ov, pba, key),
                               Num(pba[key[1]].Total_population_by_adm2))]]

\* ------------------------------------------------------- result table
\* lines 116-124: nan, then the rounded fraction where the unit has a row
PeopleAt(fd, i, w) ==
    IF <<i, w>> \in DOMAIN fd THEN Round2(fd[<<i, w>>].fraction) ELSE NaN

\* lines 126-128
Percent(people, total) == Round2(FMul(FDiv(people, Num(total)), Num(100)))

\* lines 113-130
ResultTable(pba, fd) ==
    [i \in DOMAIN pba |->
        LET total == pba[i].Total_population_by_adm2
        IN  [ADM2_PCODE |-> pba[i].ADM2_PCODE,
             Total_population_by_adm2 |-> total,
             People_at_60kmph |-> PeopleAt(fd, i, 60),
             People_at_90kmph |-> PeopleAt(fd, i, 90),
             People_at_120kmph |-> PeopleAt(fd, i, 120),
             pct_people_at_60kmph |-> Percent(PeopleAt(fd, i, 60), total),
             pct_people_at_90kmph |-> Percent(PeopleAt(fd, i, 90), total),
             pct_people_at_120kmph |-> Percent(PeopleAt(fd, i, 120), total)]]

\* ------------------------------------------------------------------ script
Init ==
    /\ pc = "start"
    /\ raised = 0
    /\ img \in Rasters
    /\ pop_gis = <<>>
    /\ adm = <<>>
    /\ pop_by_adm = <<>>
    /\ cyclone_data = <<>>
    /\ cyclone_gis = <<>>
    /\ pop_by_cyclone = <<>>
    /\ final_data = <<>>

\* lines 17-26; unpacking zip(*shapes) of no shape raises at line 22
Sample ==
    /\ pc = "start"
    /\ IF Shapes(img) = <<>>
       THEN /\ pc' = "error"
            /\ raised' = 22
            /\ UNCHANGED pop_gis
       ELSE /\ pc' = "sampled"
            /\ pop_gis' = PopGis(Shapes(img))
            /\ UNCHANGED raised
    /\ UNCHANGED <<img, adm, pop_by_adm, cyclone_data, cyclone_gis, pop_by_cyclone,
                   final_data>>

\* lines 28-37
LoadAdm ==
    /\ pc = "sampled"
    /\ adm' \in AdmInputs
    /\ pc' = "adm_loaded"
    /\ UNCHANGED <<raised, img, pop_gis, pop_by_adm, cyclone_data, cyclone_gis,
                   pop_by_cyclone, final_data>>

\* lines 39-56
UnitTotals ==
    /\ pc = "adm_loaded"
    /\ pop_by_adm' = PopByAdm(adm, pop_gis)
    /\ pc' = "unit_totals"
    /\ UNCHANGED <<raised, img, pop_gis, adm, cyclone_data, cyclone_gis,
                   pop_by_cyclone, final_data>>

\* lines 58-75
FetchCyclone ==
    /\ pc = "unit_totals"
    /\ \E ok \in BOOLEAN :
          IF ~ok
          THEN /\ pc' = "error"
               /\ raised' = 61
               /\ UNCHANGED <<cyclone_data, cyclone_gis>>
          ELSE /\ cyclone_data' \in CycloneInputs
               /\ cyclone_gis' = CycloneGis(cyclone_data')
               /\ pc' = "fetched"
               /\ UNCHANGED raised
    /\ UNCHANGED <<img, pop_gis, adm, pop_by_adm, pop_by_cyclone, final_data>>

\* lines 77-83; .item() of a selection that is not one row raises ValueError
BandPartition ==
    /\ pc = "fetched"
    /\ IF ~HasItem(cyclone_gis, 60)
       THEN pc' = "error" /\ raised' = 79 /\ UNCHANGED cyclone_gis
       ELSE IF ~HasItem(cyclone_gis, 90)
       THEN pc' = "error" /\ raised' = 80 /\ UNCHANGED cyclone_gis
       ELSE IF ~HasItem(cyclone_gis, 120)
       THEN pc' = "error" /\ raised' = 81 /\ UNCHANGED cyclone_gis
       ELSE /\ cyclone_gis' = BandDifference(cyclone_gis)
            /\ pc' = "partitioned"
            /\ UNCHANGED raised
    /\ UNCHANGED <<img, pop_gis, adm, pop_by_adm, cyclone_data, pop_by_cyclone,
                   final_data>>

\* lines 85-96
BandTotals ==
    /\ pc = "partitioned"
    /\ pop_by_cyclone' = PopByCyclone(cyclone_gis, pop_gis)
    /\ pc' = "band_totals"
    /\ UNCHANGED <<raised, img, pop_gis, adm, pop_by_adm, cyclone_data, cyclone_gis,
                   final_data>>

\* lines 98-111
Apportion ==
    /\ pc = "band_totals"
    /\ final_data' = FinalData(pop_by_adm, cyclone_gis)
    /\ pc' = "apportioned"
    /\ UNCHANGED <<raised, img, pop_gis, adm, pop_by_adm, cyclone_data, cyclone_gis,
                   pop_by_cyclone>>

\* lines 113-132
Assemble ==
    /\ pc = "apportioned"
    /\ pop_by_adm' = ResultTable(pop_by_adm, final_data)
    /\ pc' = "done"
    /\ UNCHANGED <<raised, img, pop_gis, adm, cyclone_data, cyclone_gis,
                   pop_by_cyclone, final_data>>

Next ==
    \/ Sample
    \/ LoadAdm
    \/ UnitTotals
    \/ FetchCyclone
    \/ BandPartition
    \/ BandTotals
    \/ Apportion
    \/ Assemble

Spec == Init /\ [][Next]_vars

\* ------------------------------------------------------------ properties
BandSpeeds == {60, 90, 120}

\* how far the script got
HasPoints == pc # "start" /\ raised # 22
HasUnitTotals ==
    \/ pc \in {"unit_totals", "fetched", "partitioned", "band_totals", "apportioned", "done"}
    \/ pc = "error" /\ raised \in {61, 79, 80, 81}
PartitionTried ==
    \/ pc \in {"partitioned", "band_totals", "apportioned", "done"}
    \/ pc = "error" /\ raised \in {79, 80, 81}
HasBands == pc \in {"partitioned", "band_totals", "apportioned", "done"}

\* the threshold polygons as delivered, before any subtraction
Present == {w \in BandSpeeds : \E k \in DOMAIN cyclone_data :
                                  cyclone_data[k].polygonlabel = LabelOf(w)}
Original(w) ==
    cyclone_data[CHOOSE k \in DOMAIN cyclone_data :
                     cyclone_data[k].polygonlabel = LabelOf(w)].geometry
WhollyNested == Original(120) \subseteq Original(90) /\ Original(90) \subseteq Original(60)

People(row, w) ==
    CASE w = 60 -> row.People_at_60kmph
      [] w = 90 -> row.People_at_90kmph
      [] w = 120 -> row.People_at_120kmph
Pct(row, w) ==
    CASE w = 60 -> row.pct_people_at_60kmph
      [] w = 90 -> row.pct_people_at_90kmph
      [] w = 120 -> row.pct_people_at_120kmph

\* an unset (nan) cell counts for nothing in a sum
OrZero(x) == IF IsNum(x) THEN x ELSE Num(0)
Sum3(f) == FAdd(FAdd(OrZero(f[60]), OrZero(f[90])), OrZero(f[120]))

\* area of the part of unit i inside band w, and of unit i
OverlapOf(i, w) == Area(adm[i].geometry \cap BandOf(cyclone_gis, w))
UnitArea(i) == Area(adm[i].geometry)
\* (area of unit i in band w) / (area of unit i) * (total of unit i), exact
Apportioned(i, w) ==
    FMul(FDiv(Num(OverlapOf(i, w)), Num(UnitArea(i))),
         Num(pop_by_adm[i].Total_population_by_adm2))

\* C1: the weights of the points sum to the values of the non-masked cells,
\* also when adjacent cells carry the same value.
C1_MassConservation ==
    HasPoints =>
        SumOver(DOMAIN pop_gis, Weight(pop_gis))
            = SumOver({i \in 1 .. NPix : ~img[i].masked}, [i \in 1 .. NPix |-> img[i].value])

\* C2: after band partitioning any two distinct bands share no area, for
\* every admitted input (higher polygons wholly or only partially inside the
\* lower ones).
C2_BandsDisjoint ==
    HasBands =>
        \A j, k \in DOMAIN cyclone_gis :
            j # k => cyclone_gis[j].geometry \cap cyclone_gis[k].geometry = {}

\* C2, the wholly nested inputs only: when every higher-threshold polygon
\* lies wholly inside the next lower one, any two distinct bands share no
\* area.
C2_BandsDisjointWhenNested ==
    (HasBands /\ WhollyNested) =>
        \A j, k \in DOMAIN cyclone_gis :
            j # k => cyclone_gis[j].geometry \cap cyclone_gis[k].geometry = {}

\* a wholly nested input partitioned into three non-empty bands
C2_NestedWitness ==
    /\ HasBands
    /\ WhollyNested
    /\ \A k \in DOMAIN cyclone_gis : cyclone_gis[k].geometry # {}
    /\ Original(60) # BandOf(cyclone_gis, 60)
    /\ Original(90) # BandOf(cyclone_gis, 90)

\* C3: for every input with at least two thresholds, partitioning does not
\* fail and every threshold present gets its polygon minus the polygon of
\* the next-higher threshold present (the highest keeps its polygon).
C3_DefinedForAnyThresholds ==
    (PartitionTried /\ Cardinality(Present) >= 2) =>
        /\ pc # "error"
        /\ Speeds(cyclone_gis) = Present
        /\ \A w \in Present :
              LET higher == {v \in Present : v > w}
              IN  BandOf(cyclone_gis, w)
                    = IF higher = {} THEN Original(w)
                      ELSE Original(w) \ Original(MinOf(higher))

\* C4 as stated: for every unit of the table and band that overlap with
\* positive area, the reported population equals
\* area(unit in band) / area(unit) * total of the unit.
C4_ExactApportionment ==
    pc = "done" =>
        \A i \in DOMAIN pop_by_adm : \A w \in BandSpeeds :
            OverlapOf(i, w) > 0 => People(pop_by_adm[i], w) = Apportioned(i, w)

\* C4 amended: the reported population equals that product rounded to two
\* decimals, with both areas those of the same unit and band.
C4_RoundedApportionment ==
    pc = "done" =>
        \A i \in DOMAIN pop_by_adm : \A w \in BandSpeeds :
            OverlapOf(i, w) > 0 => People(pop_by_adm[i], w) = Round2(Apportioned(i, w))

\* C4 witness: a table of two rows, one of them a populated unit half
\* covered by a band and reporting half of its total
C4_Witness ==
    /\ pc = "done"
    /\ Cardinality(DOMAIN pop_by_adm) >= 2
    /\ \E i \in DOMAIN pop_by_adm : \E w \in BandSpeeds :
          /\ 2 * OverlapOf(i, w) = UnitArea(i)
          /\ pop_by_adm[i].Total_population_by_adm2 > 0
          /\ People(pop_by_adm[i], w)
                = Round2(Rat(pop_by_adm[i].Total_population_by_adm2, 2))

\* C5: for every unit of the table the reported populations of the three
\* bands sum to at most the total of the unit.
C5_ExposureBound ==
    pc = "done" =>
        \A i \in DOMAIN pop_by_adm :
            FLeq(Sum3([w \in BandSpeeds |-> People(pop_by_adm[i], w)]),
                 Num(pop_by_adm[i].Total_population_by_adm2))

\* C5, the wholly nested inputs only: the unrounded populations of the three
\* bands sum to at most the total of the unit, and the reported (rounded)
\* ones to at most the total plus 0.015.
C5_ExposureBoundWhenNested ==
    (pc = "done" /\ WhollyNested) =>
        \A i \in DOMAIN pop_by_adm :
            LET total == Num(pop_by_adm[i].Total_population_by_adm2)
            IN  /\ FLeq(Sum3([w \in BandSpeeds |-> Apportioned(i, w)]), total)
                /\ FLeq(Sum3([w \in BandSpeeds |-> People(pop_by_adm[i], w)]),
                        FAdd(total, Rat(3, 200)))

\* a populated unit with a part in each of three nested bands
C5_NestedWitness ==
    /\ pc = "done"
    /\ WhollyNested
    /\ \E i \in DOMAIN pop_by_adm :
          /\ pop_by_adm[i].Total_population_by_adm2 > 0
          /\ \A w \in BandSpeeds :
                OverlapOf(i, w) > 0 /\ IsNum(People(pop_by_adm[i], w))
                                    /\ People(pop_by_adm[i], w).n > 0

\* C6: the final table has exactly one row for every unit of the boundary
\* file, also for a unit that holds no population point.
C6_OneRowPerUnit ==
    pc = "done" =>
        /\ Cardinality(DOMAIN pop_by_adm) = Len(adm)
        /\ {pop_by_adm[i].ADM2_PCODE : i \in DOMAIN pop_by_adm}
              = {adm[u].ADM2_PCODE : u \in DOMAIN adm}

\* C7: a unit whose total is 0 does not stop the run, and each of its band
\* percentages is nan: not 0, not infinite, whether or not it meets the band.
C7_ZeroTotalNotComputed ==
    /\ pc = "error" => raised \in {22, 61, 79, 80, 81}
    /\ pc = "done" =>
          \A i \in DOMAIN pop_by_adm :
              pop_by_adm[i].Total_population_by_adm2 = 0 =>
                  \A w \in BandSpeeds : Pct(pop_by_adm[i], w) = NaN

\* C7 witness: a finished run with a unit of total 0 that lies in one band
\* (reported population 0) and misses another (reported population unset)
C7_Witness ==
    /\ pc = "done"
    /\ \E i \in DOMAIN pop_by_adm :
          /\ pop_by_adm[i].Total_population_by_adm2 = 0
          /\ \E w \in BandSpeeds :
                OverlapOf(i, w) > 0 /\ People(pop_by_adm[i], w) = Num(0)
          /\ \E w \in BandSpeeds :
                ~PolyIntersects(adm[i].geometry, BandOf(cyclone_gis, w))
                /\ People(pop_by_adm[i], w) = NaN

\* C8: when poly90 - poly120 or poly60 - poly90 is empty, partitioning ends
\* in an error: the script never goes on with an empty band.
C8_DegenerateBandFatal ==
    HasBands => \A w \in {60, 90} : BandOf(cyclone_gis, w) # {}

\* C9: the unit totals sum to at most the sum of the point weights: no point
\* is counted for two units, also when it lies on their shared boundary.
C9_NoDoubleCounting ==
    HasUnitTotals =>
        SumOver(DOMAIN pop_by_adm,
                [i \in DOMAIN pop_by_adm |-> pop_by_adm[i].Total_population_by_adm2])
            <= SumOver(DOMAIN pop_gis, Weight(pop_gis))

\* C10: the reported percentage of a unit and band is the unrounded
\* population at the band divided by the total, times 100, rounded once.
C10_PercentFromUnrounded ==
    pc = "done" =>
        \A key \in DOMAIN final_data :
            Pct(pop_by_adm[key[1]], key[2])
                = Round2(FMul(FDiv(final_data[key].fraction,
                                   Num(pop_by_adm[key[1]].Total_population_by_adm2)),
                              Num(100)))

====
